---- MODULE Spec2Model ----
(***************************************************************************)
(* Model of disambiguate.py: a List buckets (network, label) records by    *)
(* prefix length, a Tree (binary trie over the address bits) receives them *)
(* broadest first and splits broader leaves where a narrower prefix passes *)
(* through, and a second List is filled back from the trie by a depth      *)
(* first walk.                                                             *)
(*                                                                         *)
(* Addresses are AddrBits wide.  The program fixes the width at 128        *)
(* (seek_depth = 127, 129 buckets); the model keeps every formula of the   *)
(* program written in terms of seek_depth and scales the width down so    *)
(* that the prefix sets can be enumerated.                                 *)
(***************************************************************************)
EXTENDS Integers, Sequences, FiniteSets, TLC

\* ---------------------------------------------------------------- bounds
AddrBits == 4
MaxNets == 3
MaxInserts == 3

Labels == {"A", "B"}

\* ------------------------------------------------------------- arithmetic
RECURSIVE Pow2(_)
Pow2(n) == IF n <= 0 THEN 1 ELSE 2 * Pow2(n - 1)

\* x >> n
Shr(x, n) == x \div Pow2(n)

\* Tree.seek_depth: the bit position of the most significant address bit
seek_depth == AddrBits - 1

\* ipaddress.ip_network: a network address has no bit set below its prefix
Networks ==
    { [addr |-> a, prefixlen |-> l] :
        a \in 0 .. (Pow2(AddrBits) - 1), l \in 0 .. AddrBits }

IsNetwork(n) == n.addr % Pow2(AddrBits - n.prefixlen) = 0

ip_network == { n \in Networks : IsNetwork(n) }

\* ------------------------------------------------------------------ slots
\* A child slot is None, a Node (a reference, here its index in segments)
\* or a label.
None == [tag |-> "none"]
NodeRef(i) == [tag |-> "node", id |-> i]
Leaf(asn) == [tag |-> "leaf", asn |-> asn]

\* Node.__init__
Node == [b \in {0, 1} |-> None]

\* `not node.child[bit]`: None is the only falsy slot (labels are non-empty)
IsEmpty(slot) == slot.tag = "none"
\* isinstance(slot, Node)
IsNode(slot) == slot.tag = "node"
IsLeaf(slot) == slot.tag = "leaf"

\* Tree.dump_node: 'x', 'i' or the first character of the label (the labels
\* of the model are one character long)
dump_node(slot) ==
    IF IsEmpty(slot) THEN "x" ELSE IF IsNode(slot) THEN "i" ELSE slot.asn

\* the dump unit_test builds: one [child 0, child 1] pair per node of segments
dump(tree) ==
    [i \in DOMAIN tree.segments |->
        << dump_node(tree.segments[i][0]), dump_node(tree.segments[i][1]) >>]

\* ------------------------------------------------------------------- Tree
\* Tree.__init__ : segments is 1-indexed here, segments[1] is the root
TreeNew == [net_count |-> 0, segments |-> << Node >>]

\* new.child[...] = ...
SetChild(segs, i, b, v) == [segs EXCEPT ![i] = [@ EXCEPT ![b] = v]]

\* WalkStep with a slip: the walk does not descend into a node it has just
\* created in an empty slot.
WalkStep_NoDescend(segs, node, prefix, prefixlen, depth) ==
    LET bit == Shr(prefix, depth) % 2
        slot == segs[node][bit]
    IN  IF IsEmpty(slot) THEN
            LET id == Len(segs) + 1
            IN  [segments |-> Append(SetChild(segs, node, bit, NodeRef(id)), Node),
                 node |-> node]
        ELSE IF IsLeaf(slot) THEN
            LET id == Len(segs) + 1
                next_bit == Shr(prefix, depth - 1) % 2
                new1 == [Node EXCEPT ![1 - next_bit] = slot]
                new2 == IF depth > seek_depth - (prefixlen - 2)
                        THEN [new1 EXCEPT ![next_bit] = slot]
                        ELSE new1
            IN  [segments |-> SetChild(Append(segs, new2), node, bit, NodeRef(id)),
                 node |-> id]
        ELSE [segments |-> segs, node |-> slot.id]

\* WalkStep with a slip: the split copies the old label into the child on
\* the new prefix's path and not into its sibling.
WalkStep_SplitDropsSibling(segs, node, prefix, prefixlen, depth) ==
    LET bit == Shr(prefix, depth) % 2
        slot == segs[node][bit]
    IN  IF IsEmpty(slot) THEN
            LET id == Len(segs) + 1
            IN  [segments |-> Append(SetChild(segs, node, bit, NodeRef(id)), Node),
                 node |-> id]
        ELSE IF IsLeaf(slot) THEN
            LET id == Len(segs) + 1
                next_bit == Shr(prefix, depth - 1) % 2
                new1 == [Node EXCEPT ![next_bit] = slot]
            IN  [segments |-> SetChild(Append(segs, new1), node, bit, NodeRef(id)),
                 node |-> id]
        ELSE [segments |-> segs, node |-> slot.id]

\* WalkStep with a slip: the node made by a split is appended to segments
\* but never put into the slot of the leaf it replaces.
WalkStep_SplitNotLinked(segs, node, prefix, prefixlen, depth) ==
    LET bit == Shr(prefix, depth) % 2
        slot == segs[node][bit]
    IN  IF IsEmpty(slot) THEN
            LET id == Len(segs) + 1
            IN  [segments |-> Append(SetChild(segs, node, bit, NodeRef(id)), Node),
                 node |-> id]
        ELSE IF IsLeaf(slot) THEN
            LET id == Len(segs) + 1
                next_bit == Shr(prefix, depth - 1) % 2
                new1 == [Node EXCEPT ![1 - next_bit] = slot]
                new2 == IF depth > seek_depth - (prefixlen - 2)
                        THEN [new1 EXCEPT ![next_bit] = slot]
                        ELSE new1
            IN  [segments |-> Append(segs, new2), node |-> id]
        ELSE [segments |-> segs, node |-> slot.id]

\* One iteration of the for loop of Tree.__setitem__ at bit position depth,
\* standing at node number node.  Yields the new segments and the node
\* descended into.
WalkStep(segs, node, prefix, prefixlen, depth) ==
    LET bit == Shr(prefix, depth) % 2
        slot == segs[node][bit]
    IN  IF IsEmpty(slot) THEN
            LET id == Len(segs) + 1
            IN  [segments |-> Append(SetChild(segs, node, bit, NodeRef(id)), Node),
                 node |-> id]
        ELSE IF IsLeaf(slot) THEN
            LET id == Len(segs) + 1
                next_bit == Shr(prefix, depth - 1) % 2
                new1 == [Node EXCEPT ![1 - next_bit] = slot]
                new2 == IF depth > seek_depth - (prefixlen - 2)
                        THEN [new1 EXCEPT ![next_bit] = slot]
                        ELSE new1
            IN  [segments |-> SetChild(Append(segs, new2), node, bit, NodeRef(id)),
                 node |-> id]
        ELSE [segments |-> segs, node |-> slot.id]

\* Walk with a slip: the loop runs one bit further,
\* range(seek_depth, seek_depth - prefixlen, -1).
RECURSIVE Walk_OneBitFurther(_, _, _, _, _)
Walk_OneBitFurther(segs, node, prefix, prefixlen, depth) ==
    IF depth <= seek_depth - prefixlen
    THEN [segments |-> segs, node |-> node]
    ELSE LET s == WalkStep(segs, node, prefix, prefixlen, depth)
         IN  Walk_OneBitFurther(s.segments, s.node, prefix, prefixlen, depth - 1)

\* for depth in range(seek_depth, seek_depth - (prefixlen-1), -1)
RECURSIVE Walk(_, _, _, _, _)
Walk(segs, node, prefix, prefixlen, depth) ==
    IF depth <= seek_depth - (prefixlen - 1)
    THEN [segments |-> segs, node |-> node]
    ELSE LET s == WalkStep(segs, node, prefix, prefixlen, depth)
         IN  Walk(s.segments, s.node, prefix, prefixlen, depth - 1)

\* last_bit = (prefix >> (seek_depth - (prefixlen-1))) & 1
LastBit(prefix, prefixlen) == Shr(prefix, seek_depth - (prefixlen - 1)) % 2

\* FinalWrite with a slip: a slot that already holds something is kept,
\* `if not node.child[last_bit]: node.child[last_bit] = asn`.
FinalWrite_KeepExisting(w, net, asn) ==
    IF IsEmpty(w.segments[w.node][LastBit(net.addr, net.prefixlen)])
    THEN SetChild(w.segments, w.node, LastBit(net.addr, net.prefixlen), Leaf(asn))
    ELSE w.segments

\* node.child[last_bit] = asn
FinalWrite(w, net, asn) ==
    SetChild(w.segments, w.node, LastBit(net.addr, net.prefixlen), Leaf(asn))

\* Tree.__setitem__
SetItem(tree, net, asn) ==
    LET w == Walk(tree.segments, 1, net.addr, net.prefixlen, seek_depth)
    IN  [net_count |-> tree.net_count + 1,
         segments |-> FinalWrite(w, net, asn)]

\* ------------------------------------------------------------------- List
\* List.__init__ : one bucket per prefix length
ListNew == [net_count |-> 0, levels |-> [l \in 0 .. (seek_depth + 1) |-> << >>]]

\* One record of List.load: append to the bucket of the prefix length
ListAppend(list, net, asn) ==
    [net_count |-> list.net_count + 1,
     levels |-> [list.levels EXCEPT ![net.prefixlen] =
                    Append(@, [net |-> net, asn |-> asn])]]

\* IterateFrom with a slip: the buckets are traversed from the longest
\* length down.
RECURSIVE IterateFrom_Descending(_, _)
IterateFrom_Descending(levels, l) ==
    IF l > seek_depth + 1 THEN << >>
    ELSE IterateFrom_Descending(levels, l + 1) \o levels[l]

\* List.iterate: buckets in ascending length, each in append order
RECURSIVE IterateFrom(_, _)
IterateFrom(levels, l) ==
    IF l > seek_depth + 1 THEN << >>
    ELSE levels[l] \o IterateFrom(levels, l + 1)

iterate(list) == IterateFrom(list.levels, 0)

\* visit_node with a slip: the bit of child 1 is not put into the prefix.
RECURSIVE visit_node_SamePrefix(_, _, _, _, _)
visit_node_SamePrefix(list, segs, slot, prefix, level) ==
    IF IsEmpty(slot) THEN list
    ELSE IF IsNode(slot) THEN
        LET l0 == visit_node_SamePrefix(list, segs, segs[slot.id][0], prefix, level + 1)
        IN  visit_node_SamePrefix(l0, segs, segs[slot.id][1], prefix, level + 1)
    ELSE ListAppend(list, [addr |-> prefix, prefixlen |-> level], slot.asn)

\* List.visit_node
RECURSIVE visit_node(_, _, _, _, _)
visit_node(list, segs, slot, prefix, level) ==
    IF IsEmpty(slot) THEN list
    ELSE IF IsNode(slot) THEN
        LET l0 == visit_node(list, segs, segs[slot.id][0], prefix, level + 1)
        IN  visit_node(l0, segs, segs[slot.id][1],
                       prefix + Pow2(seek_depth - level), level + 1)
    ELSE ListAppend(list, [addr |-> prefix, prefixlen |-> level], slot.asn)

\* List.reload
reload(list, tree) == visit_node(list, tree.segments, NodeRef(1), 0, 0)

\* ------------------------------------------------------------------ state
VARIABLES
    pc,        \* where disambiguate() / unit_test's do_case stands
    p,         \* the input List
    t,         \* the Tree
    inserted,  \* the (net, asn) pairs given to Tree.__setitem__ so far, in order
    p2,        \* the output List (the second `p` of disambiguate)
    file       \* the lines written to the output file (the dump, in unit_test)

vars == << pc, p, t, inserted, p2, file >>

Rec(net, asn) == [net |-> net, asn |-> asn]

\* --------------------------------------------- disambiguate(): the pipeline
Init ==
    /\ pc = "load"
    /\ p = ListNew
    /\ t = TreeNew
    /\ inserted = << >>
    /\ p2 = ListNew
    /\ file = << >>

\* List.load reads one more line of the input file
ListLoad(net, asn) ==
    /\ pc = "load"
    /\ p.net_count < MaxNets
    /\ p' = ListAppend(p, net, asn)
    /\ UNCHANGED << pc, t, inserted, p2, file >>

\* the input file is exhausted; t = Tree()
EndOfInput ==
    /\ pc = "load"
    /\ pc' = "tree"
    /\ t' = TreeNew
    /\ UNCHANGED << p, inserted, p2, file >>

\* TreeLoad with a slip: the pairs of p.iterate() are taken from the end,
\* narrowest first.
TreeLoad_NarrowestFirst ==
    /\ pc = "tree"
    /\ t.net_count < Len(iterate(p))
    /\ LET r == iterate(p)[Len(iterate(p)) - t.net_count]
       IN  /\ t' = SetItem(t, r.net, r.asn)
           /\ inserted' = Append(inserted, r)
    /\ UNCHANGED << pc, p, p2, file >>

\* Tree.load: the next pair of p.iterate() goes to Tree.__setitem__
TreeLoad ==
    /\ pc = "tree"
    /\ t.net_count < Len(iterate(p))
    /\ LET r == iterate(p)[t.net_count + 1]
       IN  /\ t' = SetItem(t, r.net, r.asn)
           /\ inserted' = Append(inserted, r)
    /\ UNCHANGED << pc, p, p2, file >>

\* p = List(); p.reload(t)
ListReload ==
    /\ pc = "tree"
    /\ t.net_count = Len(iterate(p))
    /\ p2' = reload(ListNew, t)
    /\ pc' = "write"
    /\ UNCHANGED << p, t, inserted, file >>

\* p.write(f)
ListWrite ==
    /\ pc = "write"
    /\ file' = iterate(p2)
    /\ pc' = "done"
    /\ UNCHANGED << p, t, inserted, p2 >>

Next ==
    \/ \E net \in ip_network, asn \in Labels : ListLoad(net, asn)
    \/ EndOfInput
    \/ TreeLoad
    \/ ListReload
    \/ ListWrite

Spec == Init /\ [][Next]_vars

\* ------------------------------ the Tree driven directly, as unit_test does
TreeInit ==
    /\ pc = "direct"
    /\ p = ListNew
    /\ t = TreeNew
    /\ inserted = << >>
    /\ p2 = ListNew
    /\ file = << >>

\* t[net] = asn, in any order
TreeSetItem(net, asn) ==
    /\ pc = "direct"
    /\ t.net_count < MaxInserts
    /\ t' = SetItem(t, net, asn)
    /\ inserted' = Append(inserted, Rec(net, asn))
    /\ UNCHANGED << pc, p, p2, file >>

\* the nodes of t.segments are dumped and the test case ends
TreeDump ==
    /\ pc = "direct"
    /\ file' = dump(t)
    /\ pc' = "dumped"
    /\ UNCHANGED << p, t, inserted, p2 >>

TreeNext ==
    \/ \E net \in ip_network, asn \in Labels : TreeSetItem(net, asn)
    \/ TreeDump

TreeSpec == TreeInit /\ [][TreeNext]_vars

\* ------------------------------------------------ vocabulary of the claims
Addrs == 0 .. (Pow2(AddrBits) - 1)

\* address a lies in the range of network n
Covers(n, a) ==
    Shr(a, AddrBits - n.prefixlen) = Shr(n.addr, AddrBits - n.prefixlen)

\* the ranges of m and n meet: one contains (or equals) the other, i.e. they
\* agree on the bits significant in both
Overlap(m, n) ==
    LET l == IF m.prefixlen < n.prefixlen THEN m.prefixlen ELSE n.prefixlen
    IN  Shr(m.addr, AddrBits - l) = Shr(n.addr, AddrBits - l)

\* same length, equal in all but the last significant bit
Siblings(m, n) ==
    /\ m.prefixlen = n.prefixlen
    /\ m.prefixlen >= 1
    /\ m.addr # n.addr
    /\ Shr(m.addr, AddrBits - m.prefixlen + 1) = Shr(n.addr, AddrBits - n.prefixlen + 1)

Input == iterate(p)
Output == iterate(p2)
Flattened == pc \in {"write", "done"}

CoveredBy(recs) == { a \in Addrs : \E i \in DOMAIN recs : Covers(recs[i].net, a) }

RecSet(recs) == { recs[i] : i \in DOMAIN recs }

\* the records of recs covering a that no other covering record is longer than
Narrowest(recs, a) ==
    { i \in DOMAIN recs :
        /\ Covers(recs[i].net, a)
        /\ \A j \in DOMAIN recs :
              Covers(recs[j].net, a) => recs[j].net.prefixlen <= recs[i].net.prefixlen }

FromLength1(recs) == \A i \in DOMAIN recs : recs[i].net.prefixlen >= 1

\* ---------------------------------------------------------------------- C1
SameCoverage(in, out) == CoveredBy(out) = CoveredBy(in)

\* C1: coverage preservation.  Once the trie has been flattened, the set of
\* addresses covered by the output prefixes equals the set of addresses
\* covered by the input prefixes, for input prefixes of any length 0..AddrBits.
C1_CoveragePreserved ==
    Flattened => SameCoverage(Input, Output)

\* C1, restricted to inputs without a prefix of length 0 (the length the trie
\* cannot hold): kept to show where the failure of C1 comes from.
C1_CoveragePreservedFromLength1 ==
    Flattened => LET in == Input IN FromLength1(in) => SameCoverage(in, Output)

\* ---------------------------------------------------------------------- C2
NarrowestWins(in, out) ==
    \A a \in Addrs :
        (\E i, j \in DOMAIN in :
            /\ Covers(in[i].net, a) /\ Covers(in[j].net, a)
            /\ in[i].net.prefixlen < in[j].net.prefixlen)
        => /\ Cardinality({ k \in DOMAIN out : Covers(out[k].net, a) }) = 1
           /\ \A k \in DOMAIN out :
                 Covers(out[k].net, a)
                    => \E i \in Narrowest(in, a) : out[k].asn = in[i].asn

\* C2: narrowest wins.  After the pipeline has inserted the input in bucket
\* order and flattened the trie, every address covered by both a broader and
\* a narrower input prefix is covered by exactly one output prefix, and that
\* output prefix carries the label of a narrowest input prefix covering it.
C2_NarrowestWins ==
    Flattened => NarrowestWins(Input, Output)

Nested3(in) ==
    \E i, j, k \in DOMAIN in :
        /\ in[i].net.prefixlen >= 1
        /\ in[i].net.prefixlen < in[j].net.prefixlen
        /\ in[j].net.prefixlen < in[k].net.prefixlen
        /\ Overlap(in[i].net, in[j].net)
        /\ Overlap(in[j].net, in[k].net)
        /\ in[i].asn # in[j].asn
        /\ in[j].asn # in[k].asn

\* a broad prefix, a narrower one inside it and a still narrower one inside
\* that, the middle label differing from its neighbours, have been flattened
C2_Witness ==
    Flattened /\ Nested3(Input)

\* ---------------------------------------------------------------------- C3
PairwiseDisjoint(recs) ==
    \A i, j \in DOMAIN recs : i # j => ~ Overlap(recs[i].net, recs[j].net)

\* C3: disjointness.  Any two distinct prefixes List.reload produced from the
\* trie have disjoint address ranges (neither contains or equals the other).
C3_Disjoint ==
    Flattened => PairwiseDisjoint(Output)

\* overlapping input has been flattened into at least four output prefixes
C3_Witness ==
    /\ Flattened
    /\ Len(Output) >= 4
    /\ ~ PairwiseDisjoint(Input)

\* ---------------------------------------------------------------------- C4
NoMergeableSiblings(recs) ==
    \A i, j \in DOMAIN recs :
        Siblings(recs[i].net, recs[j].net) => recs[i].asn # recs[j].asn

\* C4 (as claimed): minimality.  The output never holds two sibling prefixes
\* that carry the same label and could be merged into their parent.
C4_Minimal ==
    Flattened => NoMergeableSiblings(Output)

\* no two distinct records that overlap or are siblings share a label
DistinctlyLabelled(recs) ==
    \A i, j \in DOMAIN recs :
        (i # j /\ (Overlap(recs[i].net, recs[j].net)
                     \/ Siblings(recs[i].net, recs[j].net)))
            => recs[i].asn # recs[j].asn

\* C4 (amended): when no two input prefixes that overlap or are siblings
\* carry the same label, the output holds no two sibling prefixes with the
\* same label (the flattener itself never merges anything).
C4_MinimalWhenDistinctlyLabelled ==
    (Flattened /\ DistinctlyLabelled(Input)) => NoMergeableSiblings(Output)

HasSiblings(recs) ==
    \E i, j \in DOMAIN recs : Siblings(recs[i].net, recs[j].net)

\* a broad prefix split by two narrower ones, labels distinct where required
C4_Witness ==
    /\ Flattened
    /\ Len(Input) = 3
    /\ DistinctlyLabelled(Input)
    /\ ~ PairwiseDisjoint(Input)
    /\ Len(Output) >= 4
    /\ HasSiblings(Output)

\* ---------------------------------------------------------------------- C5
SameRecords(in, out) ==
    /\ RecSet(out) = RecSet(in)
    /\ Len(out) = Len(in)

\* C5: round trip.  For an input of pairwise non-overlapping prefixes (any
\* lengths 0..AddrBits) the flattened output is exactly the input: the same
\* prefixes with the same labels, as many of them.
C5_RoundTrip ==
    Flattened => LET in == Input IN PairwiseDisjoint(in) => SameRecords(in, Output)

\* C5, restricted to inputs without a prefix of length 0: kept to show where
\* the failure of C5 comes from.
C5_RoundTripFromLength1 ==
    Flattened =>
        LET in == Input
        IN  (PairwiseDisjoint(in) /\ FromLength1(in)) => SameRecords(in, Output)

\* ---------------------------------------------------------------------- C6
Last(seq) == seq[Len(seq)]

\* the slots (node number, bit) at which two segment lists of equal length differ
ChangedSlots(old, new) ==
    { nb \in (DOMAIN old) \X {0, 1} : new[nb[1]][nb[2]] # old[nb[1]][nb[2]] }

\* same nodes, same empty / internal / leaf slots, at most one label changed
SameShape(old, new) ==
    /\ Len(new) = Len(old)
    /\ \A n \in DOMAIN old : \A b \in {0, 1} : new[n][b].tag = old[n][b].tag
    /\ Cardinality(ChangedSlots(old, new)) <= 1

\* the step is Tree.load inserting a prefix that was inserted before
ReinsertStep ==
    /\ pc = "tree"
    /\ t'.net_count = t.net_count + 1
    /\ Last(inserted').net.prefixlen >= 1
    /\ \E i \in DOMAIN inserted : inserted[i].net = Last(inserted').net

\* every prefix of length >= 1 inserted more than once, nothing longer having
\* been inserted, comes out once, with the label inserted last
DuplicatesKeepLast(ins, out) ==
    \A i, j \in DOMAIN ins :
        (/\ i < j
         /\ ins[i].net = ins[j].net
         /\ ins[j].net.prefixlen >= 1
         /\ \A k \in DOMAIN ins :
               /\ ins[k].net.prefixlen <= ins[j].net.prefixlen
               /\ (ins[k].net = ins[j].net => k <= j))
        => /\ Cardinality({ k \in DOMAIN out : Overlap(out[k].net, ins[j].net) }) = 1
           /\ \E k \in DOMAIN out : out[k] = ins[j]

\* C6: duplicate insertion.  When the same prefix (length >= 1) is inserted
\* again (other prefixes of the same or a shorter length around it), the
\* second insertion leaves the trie's shape as it was and changes at most the
\* one label, and the output holds that prefix exactly once, with the label
\* inserted last.
C6_DuplicateOverwrites ==
    /\ [] (Flattened => DuplicatesKeepLast(inserted, Output))
    /\ [][ReinsertStep => SameShape(t.segments, t'.segments)]_vars

\* a prefix inserted as A and then as B, a third prefix between them
C6_Witness ==
    /\ Flattened
    /\ Len(inserted) = 3
    /\ inserted[1].net = inserted[3].net
    /\ inserted[1].net.prefixlen >= 2
    /\ inserted[2].net # inserted[1].net
    /\ inserted[1].asn = "A"
    /\ inserted[3].asn = "B"
    /\ Len(Output) = 2

\* ---------------------------------------------------------------------- C7
Ascending(recs) ==
    \A i, j \in DOMAIN recs : i < j => recs[i].net.prefixlen <= recs[j].net.prefixlen

OfLength(recs, l) == SelectSeq(recs, LAMBDA r : r.net.prefixlen = l)

\* new is old with one record r added behind the records of its own length
AppendedInBucket(old, new) ==
    \E r \in RecSet(new) :
        \A l \in 0 .. AddrBits :
            OfLength(new, l) =
                IF l = r.net.prefixlen THEN Append(OfLength(old, l), r)
                ELSE OfLength(old, l)

\* within one length the addresses ascend: the order in which a walk that
\* visits child 0 before child 1 appends them
DepthFirstWithinLength(recs) ==
    \A i, j \in DOMAIN recs :
        (i < j /\ recs[i].net.prefixlen = recs[j].net.prefixlen)
            => recs[i].net.addr < recs[j].net.addr

\* C7: ascending length order.  List.iterate yields prefixes in
\* non-decreasing length order, for the List filled by load in any input
\* order and for the List filled by reload; so Tree.load inserts broadest
\* first and the file is written in non-decreasing length order.  Within one
\* length the order is the order of appending: a record loaded later comes
\* after the earlier records of its length, and reload's records come in
\* the order of its depth first walk.
C7_AscendingLength ==
    /\ [] (/\ Ascending(iterate(p))
           /\ (pc \in {"tree", "write", "done"} => Ascending(inserted))
           /\ Ascending(iterate(p2))
           /\ DepthFirstWithinLength(iterate(p2))
           /\ (pc = "done" => Ascending(file) /\ Len(file) = p2.net_count))
    /\ [][(pc = "load" /\ p'.net_count = p.net_count + 1)
            => AppendedInBucket(iterate(p), iterate(p'))]_vars

\* three records of three different lengths were loaded and written out
C7_Witness ==
    /\ pc = "done"
    /\ Len(file) >= 3
    /\ p.net_count = 3
    /\ \E l1, l2, l3 \in 1 .. AddrBits :
          /\ l1 < l2 /\ l2 < l3
          /\ Len(p.levels[l1]) = 1 /\ Len(p.levels[l2]) = 1 /\ Len(p.levels[l3]) = 1

\* ---------------------------------------------------------------------- C8
\* the i-th most significant bit of a network address, i in 1 .. AddrBits
BitAt(n, i) == Shr(n.addr, AddrBits - i) % 2

\* the trie after B (length m, label b) and then N (length n > m, inside B,
\* label c) were inserted into an empty trie
SplitShape(segs, B, b, N, c) ==
    LET m == B.prefixlen
        n == N.prefixlen
    IN  /\ Len(segs) = n
        /\ \A i \in 1 .. n :
              /\ segs[i][BitAt(N, i)] = IF i < n THEN NodeRef(i + 1) ELSE Leaf(c)
              /\ segs[i][1 - BitAt(N, i)] = IF i > m THEN Leaf(b) ELSE None

\* C8: split shape.  Inserting into an empty trie a prefix B of length
\* m >= 1 (label b) and then a prefix N of length n > m inside B (label c)
\* yields exactly n nodes, numbered along N's path; every slot on N's path
\* above its last bit is internal, the slot of N's last bit is leaf c, the
\* slot off N's path is leaf b at the bit positions m < i <= n and empty at
\* the positions i <= m.
C8_SplitShape ==
    (/\ Len(inserted) = 2
     /\ inserted[1].net.prefixlen >= 1
     /\ inserted[1].net.prefixlen < inserted[2].net.prefixlen
     /\ Overlap(inserted[1].net, inserted[2].net))
    => SplitShape(t.segments, inserted[1].net, inserted[1].asn,
                  inserted[2].net, inserted[2].asn)

\* the last case of unit_test, 8000::/2 then 9000::/4, has been dumped:
\* ['x','i'] ['i','x'] ['i', b] [b, c]
C8_Witness ==
    /\ pc = "dumped"
    /\ Len(inserted) = 2
    /\ inserted[1].net = [addr |-> Pow2(AddrBits - 1), prefixlen |-> 2]
    /\ inserted[2].net = [addr |-> 9 * Pow2(AddrBits - 4), prefixlen |-> 4]
    /\ inserted[1].asn # inserted[2].asn
    /\ file = << << "x", "i" >>, << "i", "x" >>,
                 << "i", inserted[1].asn >>,
                 << inserted[1].asn, inserted[2].asn >> >>

\* ---------------------------------------------------------------------- C9
RECURSIVE SumLen(_)
SumLen(recs) ==
    IF recs = << >> THEN 0
    ELSE recs[1].net.prefixlen + SumLen(Tail(recs))

\* the nodes an insert can add: one per bit walked, the last bit walks none
RECURSIVE SumWalked(_)
SumWalked(recs) ==
    IF recs = << >> THEN 0
    ELSE (IF recs[1].net.prefixlen >= 1 THEN recs[1].net.prefixlen - 1 ELSE 0)
           + SumWalked(Tail(recs))

\* C9 (as claimed): the number of trie nodes is at most the sum of the prefix
\* lengths of the prefixes inserted so far.
C9_NodeCountAtMostSumOfLengths ==
    Len(t.segments) <= SumLen(inserted)

\* C9 (amended): the number of trie nodes never decreases from one insert to
\* the next and is at most 1 (the root the constructor makes) plus, for
\* every prefix inserted so far, its length less one (nothing for length 0).
C9_NodeCountBound ==
    /\ [] (Len(t.segments) <= 1 + SumWalked(inserted))
    /\ [][Len(t'.segments) >= Len(t.segments)]_vars

\* three inserts in any order have grown the trie to its bound
C9_Witness ==
    /\ Len(inserted) = 3
    /\ inserted[1].net.prefixlen > inserted[2].net.prefixlen
    /\ Len(t.segments) >= 4
    /\ Len(t.segments) = 1 + SumWalked(inserted)

\* --------------------------------------------------------------------- C10
\* the slot Tree.__setitem__ is about to overwrite when given net
FinalSlot(tree, net) ==
    LET w == Walk(tree.segments, 1, net.addr, net.prefixlen, seek_depth)
    IN  w.segments[w.node][LastBit(net.addr, net.prefixlen)]

\* the slots holding a reference to node number id
ParentSlots(segs, id) ==
    { nb \in (DOMAIN segs) \X {0, 1} : segs[nb[1]][nb[2]] = NodeRef(id) }

\* every node but the root hangs in exactly one slot, of an older node
SingleParent(segs) ==
    \A id \in 2 .. Len(segs) :
        /\ Cardinality(ParentSlots(segs, id)) = 1
        /\ \A nb \in ParentSlots(segs, id) : nb[1] < id

InsertStep == t'.net_count = t.net_count + 1 /\ inserted' # inserted

\* C10: the final write never discards a subtree.  In a sequence of inserts
\* of non-decreasing prefix lengths, the slot the last step of an insert
\* overwrites holds empty or a leaf, never an internal node, and every node
\* ever appended to segments hangs in exactly one parent slot.
C10_FinalWriteKeepsSubtrees ==
    /\ [][(InsertStep /\ Ascending(inserted'))
            => ~ IsNode(FinalSlot(t, Last(inserted').net))]_vars
    /\ [] (Ascending(inserted) => SingleParent(t.segments))

\* three inserts of non-decreasing length: a split, then a write over a leaf
C10_Witness ==
    /\ Len(inserted) = 3
    /\ Ascending(inserted)
    /\ inserted[1].net.prefixlen < inserted[2].net.prefixlen
    /\ Overlap(inserted[1].net, inserted[2].net)
    /\ inserted[3].net = inserted[2].net
    /\ Len(t.segments) >= 3

\* C10, the remark in brackets: without the ordering the final write can hit
\* an internal node and leave the narrower prefixes below it unreachable.
\* (TLC refutes this as an invariant of TreeSpec: the case exists.)
C10_AnyOrderKeepsSubtrees ==
    SingleParent(t.segments)

====
